---- MODULE Spec2Model ----
(***************************************************************************)
(* Model of macros/src/pubsub.rs: the typed Subscriber<T> and Sink<T>      *)
(* wrappers over the untyped pub/sub subscriber and notification channel.  *)
(*                                                                         *)
(* A Sink<T> is the record [id, buffered]; `buffered` is the Option slot,  *)
(* written as a sequence of length 0 (None) or 1 (Some(entry)).  The       *)
(* `sink: pubsub::Sink` field of every Sink and of every clone is a handle *)
(* on one shared underlying channel, whose accepted notifications are the  *)
(* sequence `chan`.  What the underlying channel answers to a call is an   *)
(* input of the call (accepts, not ready, or a transport error).           *)
(***************************************************************************)
EXTENDS Integers, Sequences, FiniteSets, TLC

\* Bounds of the model.
MaxItems == 2        \* values handed to start_send / notify of one Sink
MaxSinks == 2        \* the Sink made by assign_id plus its clones (SpecClone)
MaxCloneItems == 1   \* values handed to start_send / notify in SpecClone

Names == {"foo", "bar"}              \* event names
Ids == {"id1", "id2"}                \* subscription ids
Errors == {"closed", "broken"}       \* values of pubsub::TransportError
RawOutcomes == {"ready", "not_ready"} \cup Errors

VARIABLES
    subscriber,   \* "pending" | "consumed": the Subscriber<T> value
    sinks,        \* sequence of live Sink<T> values: [id, buffered]
    chan,         \* entries the underlying channel has accepted, in order
    nextVal,      \* next fresh payload value a caller submits
    accepted,     \* history: items for which start_send returned AsyncSink::Ready
    failed,       \* history: entries whose hand-over ended in a transport error
    smooth,       \* history: only start_send on sinks[1] so far, every try-send accepted
    last          \* the latest call: its arguments, result and underlying calls

vars == <<subscriber, sinks, chan, nextVal, accepted, failed, smooth, last>>

----------------------------------------------------------------------------
\* Results (futures::Async, futures::AsyncSink, Result<_, TransportError>).

\* `item` carries the (name, value) item handed back by Sink<T>::start_send,
\* `entry` the (name, params) entry handed back by the underlying channel.
Ready == [kind |-> "Ready", item |-> <<>>, entry |-> <<>>, err |-> "none"]
NotReadyWith(item) == [kind |-> "NotReady", item |-> <<item>>, entry |-> <<>>, err |-> "none"]
NotReadyRaw(entry) == [kind |-> "NotReady", item |-> <<>>, entry |-> <<entry>>, err |-> "none"]
NotReady == [kind |-> "NotReady", item |-> <<>>, entry |-> <<>>, err |-> "none"]
Err(e) == [kind |-> "Err", item |-> <<>>, entry |-> <<>>, err |-> e]
Ok == [kind |-> "Ok", item |-> <<>>, entry |-> <<>>, err |-> "none"]
NoResult == [kind |-> "none", item |-> <<>>, entry |-> <<>>, err |-> "none"]

\* util::to_value: the serialized form of a payload value.
to_value(val) == [json |-> "Number", n |-> val]

\* val_to_params pushing the serialized value twice.
val_to_params_twice(val) == [params |-> "Array", elems |-> <<to_value(val), to_value(val)>>]

\* Sink::val_to_params: a Params::Array holding exactly the serialized value.
val_to_params(val) == [params |-> "Array", elems |-> <<to_value(val)>>]

----------------------------------------------------------------------------
\* The underlying pubsub::Sink and pubsub::Subscriber (collaborators).

Call(what, item, res) == [call |-> what, item |-> item, res |-> res]

raw_start_send(item, o) ==
    IF o = "ready" THEN Ready
    ELSE IF o = "not_ready" THEN NotReadyRaw(item)
    ELSE Err(o)

raw_poll_complete(o) ==
    IF o = "ready" THEN Ready ELSE IF o = "not_ready" THEN NotReady ELSE Err(o)

raw_close(o) ==
    IF o = "ready" THEN Ready ELSE IF o = "not_ready" THEN NotReady ELSE Err(o)

raw_notify(name, params, o) ==
    IF o = "ready" THEN Ready
    ELSE IF o = "not_ready" THEN NotReadyRaw(<<name, params>>)
    ELSE Err(o)

raw_assign_id(id, open) == IF open THEN Ok ELSE Err("unreachable")

raw_reject(open) == IF open THEN Ok ELSE Err("unreachable")

\* What a sequence of underlying calls adds to the channel: the entries of the
\* send calls the channel accepted, in call order.
IsDelivery(c) == c.call \in {"start_send", "notify"} /\ c.res.kind = "Ready"

Delivered(calls) ==
    LET sent == SelectSeq(calls, IsDelivery)
    IN [i \in 1..Len(sent) |-> sent[i].item[1]]

Failures(calls) ==
    {calls[i].item[1] : i \in {j \in 1..Len(calls) :
        calls[j].call \in {"start_send", "notify"} /\ calls[j].res.kind = "Err"}}

----------------------------------------------------------------------------
\* Sink<T>

\* poll without line 73: an item the channel hands back is not put back.
poll_forget(buffered, o) ==
    IF buffered = <<>>
    THEN [buffered |-> <<>>, calls |-> <<>>, res |-> Ready]
    ELSE LET item == buffered[1]
             result == raw_start_send(item, o)
             call == Call("start_send", <<item>>, result)
         IN IF result.kind = "Err"
            THEN [buffered |-> <<>>, calls |-> <<call>>, res |-> result]
            ELSE [buffered |-> <<>>, calls |-> <<call>>, res |-> Ready]

\* poll reading the slot at line 70 without take(): an accepted item stays buffered.
poll_keep(buffered, o) ==
    IF buffered = <<>>
    THEN [buffered |-> <<>>, calls |-> <<>>, res |-> Ready]
    ELSE LET item == buffered[1]
             result == raw_start_send(item, o)
             call == Call("start_send", <<item>>, result)
         IN IF result.kind = "Err"
            THEN [buffered |-> buffered, calls |-> <<call>>, res |-> result]
            ELSE [buffered |-> buffered, calls |-> <<call>>, res |-> NotReady]

\* poll that never offers a buffered item to the channel: the slot stays Full.
poll_idle(buffered, o) ==
    IF buffered = <<>>
    THEN [buffered |-> <<>>, calls |-> <<>>, res |-> Ready]
    ELSE [buffered |-> buffered, calls |-> <<>>, res |-> NotReady]

\* Sink::poll, the drain step.
poll(buffered, o) ==
    IF buffered = <<>>
    THEN [buffered |-> <<>>, calls |-> <<>>, res |-> Ready]
    ELSE LET item == buffered[1]
             result == raw_start_send(item, o)
             call == Call("start_send", <<item>>, result)
         IN IF result.kind = "Err"
            THEN [buffered |-> <<>>, calls |-> <<call>>, res |-> result]
            ELSE LET b == IF result.kind = "NotReady" THEN result.entry ELSE <<>>
                 IN [buffered |-> b, calls |-> <<call>>,
                     res |-> IF Len(b) > 0 THEN NotReady ELSE Ready]

\* The value an operation returns together with what it did: the buffer it
\* leaves, the calls it made on self.sink, and its first drain step's result
\* (`drain`) and the buffer that step left (`mid`).
Outcome(p1, buffered, calls, res) ==
    [buffered |-> buffered, calls |-> calls, res |-> res,
     drain |-> p1.res, mid |-> p1.buffered]

\* start_send without the early return of lines 93-95.
start_send_overwrite(buffered, item, o1, o2) ==
    LET p1 == poll(buffered, o1)
    IN IF p1.res.kind = "Err" THEN Outcome(p1, p1.buffered, p1.calls, p1.res)
       ELSE LET p2 == poll(<<<<item[1], val_to_params(item[2])>>>>, o2)
            IN Outcome(p1, p2.buffered, p1.calls \o p2.calls,
                       IF p2.res.kind = "Err" THEN p2.res ELSE Ready)

\* start_send without the second poll of line 99.
start_send_no_flush(buffered, item, o1, o2) ==
    LET p1 == poll(buffered, o1)
    IN IF p1.res.kind = "Err" THEN Outcome(p1, p1.buffered, p1.calls, p1.res)
       ELSE IF p1.res.kind = "NotReady"
       THEN Outcome(p1, p1.buffered, p1.calls, NotReadyWith(item))
       ELSE Outcome(p1, <<<<item[1], val_to_params(item[2])>>>>, p1.calls, Ready)

\* start_send returning the second poll's readiness at line 101.
start_send_strict(buffered, item, o1, o2) ==
    LET p1 == poll(buffered, o1)
    IN IF p1.res.kind = "Err" THEN Outcome(p1, p1.buffered, p1.calls, p1.res)
       ELSE IF p1.res.kind = "NotReady"
       THEN Outcome(p1, p1.buffered, p1.calls, NotReadyWith(item))
       ELSE LET p2 == poll(<<<<item[1], val_to_params(item[2])>>>>, o2)
            IN Outcome(p1, p2.buffered, p1.calls \o p2.calls,
                       IF p2.res.kind = "Err" THEN p2.res
                       ELSE IF p2.res.kind = "NotReady" THEN NotReadyWith(item)
                       ELSE Ready)

\* Sink::start_send
start_send(buffered, item, o1, o2) ==
    LET p1 == poll(buffered, o1)
    IN IF p1.res.kind = "Err" THEN Outcome(p1, p1.buffered, p1.calls, p1.res)
       ELSE IF p1.res.kind = "NotReady"
       THEN Outcome(p1, p1.buffered, p1.calls, NotReadyWith(item))
       ELSE LET name == item[1]
                val == val_to_params(item[2])
                p2 == poll(<<<<name, val>>>>, o2)
            IN Outcome(p1, p2.buffered, p1.calls \o p2.calls,
                       IF p2.res.kind = "Err" THEN p2.res ELSE Ready)

\* The result of an operation that runs no drain step.
NoDrain(buffered) == [res |-> NoResult, buffered |-> buffered]

\* poll_complete without the drain step of line 105.
poll_complete_no_drain(buffered, o1, o2) ==
    LET r == raw_poll_complete(o2)
    IN Outcome(NoDrain(buffered), buffered, <<Call("poll_complete", <<>>, r)>>, r)

\* Sink::poll_complete
poll_complete(buffered, o1, o2) ==
    LET p == poll(buffered, o1)
    IN IF p.res.kind = "Err" THEN Outcome(p, p.buffered, p.calls, p.res)
       ELSE LET r == raw_poll_complete(o2)
            IN Outcome(p, p.buffered, Append(p.calls, Call("poll_complete", <<>>, r)), r)

\* close going on to self.sink.close() after a failed drain step (line 110 without `?`).
close_ignore_error(buffered, o1, o2) ==
    LET p == poll(buffered, o1)
        r == raw_close(o2)
    IN Outcome(p, p.buffered, Append(p.calls, Call("close", <<>>, r)), r)

\* Sink::close
close(buffered, o1, o2) ==
    LET p == poll(buffered, o1)
    IN IF p.res.kind = "Err" THEN Outcome(p, p.buffered, p.calls, p.res)
       ELSE LET r == raw_close(o2)
            IN Outcome(p, p.buffered, Append(p.calls, Call("close", <<>>, r)), r)

\* notify running a drain step before it forwards.
notify_drain(buffered, name, val, o) ==
    LET p == poll(buffered, o)
        params == val_to_params(val)
        r == raw_notify(name, params, o)
    IN Outcome(p, p.buffered, Append(p.calls, Call("notify", <<<<name, params>>>>, r)), r)

\* Sink::notify
notify(buffered, name, val, o) ==
    LET params == val_to_params(val)
        r == raw_notify(name, params, o)
    IN Outcome(NoDrain(buffered), buffered, <<Call("notify", <<<<name, params>>>>, r)>>, r)

\* #[derive(Clone)] for Sink<T>: every field is cloned.
clone(sink) == [id |-> sink.id, buffered |-> sink.buffered]

\* assign_id building the Sink before the `?` of line 39 and with a fixed id.
assign_id_unchecked(id, open) ==
    LET r == raw_assign_id(id, open)
    IN [sink |-> <<[id |-> "id1", buffered |-> <<>>]>>, res |-> r]

\* Subscriber::assign_id
assign_id(id, open) ==
    LET r == raw_assign_id(id, open)
    IN IF r.kind = "Err"
       THEN [sink |-> <<>>, res |-> r]
       ELSE [sink |-> <<[id |-> id, buffered |-> <<>>]>>, res |-> Ok]

\* Subscriber::reject
reject(open) == raw_reject(open)

----------------------------------------------------------------------------
NoCall ==
    [op |-> "none", sink |-> 0, arg |-> <<>>, id |-> "none", pre |-> <<>>,
     preFlushed |-> "none", retry |-> FALSE, res |-> NoResult, calls |-> <<>>,
     drain |-> NoResult, mid |-> <<>>]

\* What the call just before this one did, when it was a poll_complete on sink s
\* that found the buffer Full: "left_full" when the underlying channel answered
\* its try-send with not ready, "emptied" when the channel accepted it.
Flushed(s) ==
    IF last.op = "poll_complete" /\ last.sink = s /\ last.pre # <<>>
    THEN IF last.calls[1].res.kind = "NotReady" THEN "left_full"
         ELSE IF last.calls[1].res.kind = "Ready" THEN "emptied"
         ELSE "none"
    ELSE "none"

\* This call is a start_send of the item that the call just before it, a
\* start_send on the same sink, returned as NotReady(item).
Retried(op, s, arg) ==
    /\ op = "start_send" /\ last.op = "start_send" /\ last.sink = s
    /\ last.res.kind = "NotReady" /\ last.arg = arg

Record(op, s, arg, r) ==
    [op |-> op, sink |-> s, arg |-> arg, id |-> sinks[s].id,
     pre |-> sinks[s].buffered,
     preFlushed |-> IF op = "start_send" THEN Flushed(s) ELSE "none",
     retry |-> Retried(op, s, arg),
     res |-> r.res, calls |-> r.calls, drain |-> r.drain, mid |-> r.mid]

\* An answer of the underlying channel that no call consumes is fixed to "ready",
\* so that one call with one sequence of answers is one transition.
Consumed(used, o) == used \/ o = "ready"

AllAccepted(calls) == \A i \in 1..Len(calls) : calls[i].res.kind = "Ready"

\* Subscriber::new has wrapped the raw subscriber; no Sink exists yet.
Init ==
    /\ subscriber = "pending"
    /\ sinks = <<>>
    /\ chan = <<>>
    /\ nextVal = 1
    /\ accepted = <<>>
    /\ failed = {}
    /\ smooth = TRUE
    /\ last = NoCall

AssignId(id, open) ==
    /\ subscriber = "pending"
    /\ LET r == assign_id(id, open)
       IN /\ subscriber' = "consumed"
          /\ sinks' = r.sink
          /\ last' = [NoCall EXCEPT !.op = "assign_id", !.id = id, !.res = r.res]
    /\ UNCHANGED <<chan, nextVal, accepted, failed, smooth>>

Reject(open) ==
    /\ subscriber = "pending"
    /\ subscriber' = "consumed"
    /\ last' = [NoCall EXCEPT !.op = "reject", !.res = reject(open)]
    /\ UNCHANGED <<sinks, chan, nextVal, accepted, failed, smooth>>

StartSend(s, name, o1, o2) ==
    /\ s \in DOMAIN sinks
    /\ nextVal <= MaxItems
    /\ Consumed(sinks[s].buffered # <<>>, o1)
    /\ Consumed(poll(sinks[s].buffered, o1).res.kind = "Ready", o2)
    /\ LET item == <<name, nextVal>>
           r == start_send(sinks[s].buffered, item, o1, o2)
       IN /\ sinks' = [sinks EXCEPT ![s].buffered = r.buffered]
          /\ chan' = chan \o Delivered(r.calls)
          /\ failed' = failed \cup Failures(r.calls)
          /\ nextVal' = IF r.res.kind = "NotReady" THEN nextVal ELSE nextVal + 1
          /\ accepted' = IF r.res.kind = "Ready" THEN Append(accepted, item) ELSE accepted
          /\ smooth' = (smooth /\ s = 1 /\ AllAccepted(r.calls))
          /\ last' = Record("start_send", s, <<item>>, r)
    /\ UNCHANGED subscriber

\* poll_complete on a buffer slot that every clone shares.
PollComplete_shared(s, o1, o2) ==
    /\ s \in DOMAIN sinks
    /\ Consumed(sinks[s].buffered # <<>>, o1)
    /\ Consumed(poll(sinks[s].buffered, o1).res.kind # "Err", o2)
    /\ LET r == poll_complete(sinks[s].buffered, o1, o2)
       IN /\ sinks' = [t \in DOMAIN sinks |-> [sinks[t] EXCEPT !.buffered = r.buffered]]
          /\ chan' = chan \o Delivered(r.calls)
          /\ failed' = failed \cup Failures(r.calls)
          /\ last' = Record("poll_complete", s, <<>>, r)
    /\ smooth' = FALSE
    /\ UNCHANGED <<subscriber, nextVal, accepted>>

PollComplete(s, o1, o2) ==
    /\ s \in DOMAIN sinks
    /\ Consumed(sinks[s].buffered # <<>>, o1)
    /\ Consumed(poll(sinks[s].buffered, o1).res.kind # "Err", o2)
    /\ LET r == poll_complete(sinks[s].buffered, o1, o2)
       IN /\ sinks' = [sinks EXCEPT ![s].buffered = r.buffered]
          /\ chan' = chan \o Delivered(r.calls)
          /\ failed' = failed \cup Failures(r.calls)
          /\ last' = Record("poll_complete", s, <<>>, r)
    /\ smooth' = FALSE
    /\ UNCHANGED <<subscriber, nextVal, accepted>>

Close(s, o1, o2) ==
    /\ s \in DOMAIN sinks
    /\ Consumed(sinks[s].buffered # <<>>, o1)
    /\ Consumed(poll(sinks[s].buffered, o1).res.kind # "Err", o2)
    /\ LET r == close(sinks[s].buffered, o1, o2)
       IN /\ sinks' = [sinks EXCEPT ![s].buffered = r.buffered]
          /\ chan' = chan \o Delivered(r.calls)
          /\ failed' = failed \cup Failures(r.calls)
          /\ last' = Record("close", s, <<>>, r)
    /\ smooth' = FALSE
    /\ UNCHANGED <<subscriber, nextVal, accepted>>

Notify(s, name, o) ==
    /\ s \in DOMAIN sinks
    /\ nextVal <= MaxItems
    /\ LET r == notify(sinks[s].buffered, name, nextVal, o)
       IN /\ sinks' = [sinks EXCEPT ![s].buffered = r.buffered]
          /\ chan' = chan \o Delivered(r.calls)
          /\ failed' = failed \cup Failures(r.calls)
          /\ last' = Record("notify", s, <<<<name, nextVal>>>>, r)
    /\ nextVal' = nextVal + 1
    /\ smooth' = FALSE
    /\ UNCHANGED <<subscriber, accepted>>

Clone(s) ==
    /\ s \in DOMAIN sinks
    /\ Len(sinks) < MaxSinks
    /\ sinks' = Append(sinks, clone(sinks[s]))
    /\ smooth' = FALSE
    /\ last' = [NoCall EXCEPT !.op = "clone", !.sink = s, !.pre = sinks[s].buffered, !.res = Ok]
    /\ UNCHANGED <<subscriber, chan, nextVal, accepted, failed>>

\* One Sink<T>, driven by its owner.
Next ==
    \/ \E id \in Ids, open \in BOOLEAN : AssignId(id, open)
    \/ \E open \in BOOLEAN : Reject(open)
    \/ \E s \in DOMAIN sinks, name \in Names, o1, o2 \in RawOutcomes : StartSend(s, name, o1, o2)
    \/ \E s \in DOMAIN sinks, o1, o2 \in RawOutcomes : PollComplete(s, o1, o2)
    \/ \E s \in DOMAIN sinks, o1, o2 \in RawOutcomes : Close(s, o1, o2)
    \/ \E s \in DOMAIN sinks, name \in Names, o \in RawOutcomes : Notify(s, name, o)

Spec == Init /\ [][Next]_vars

\* One Sink<T> over an underlying channel that reports no transport error, driven
\* by a scheduler that keeps calling start_send or poll_complete while the buffer
\* is Full, the channel accepting a try-send in the end.
Quiet == {"ready", "not_ready"}

NextLive ==
    \/ \E id \in Ids, open \in BOOLEAN : AssignId(id, open)
    \/ \E open \in BOOLEAN : Reject(open)
    \/ \E s \in DOMAIN sinks, name \in Names, o1, o2 \in Quiet : StartSend(s, name, o1, o2)
    \/ \E s \in DOMAIN sinks, o1, o2 \in Quiet : PollComplete(s, o1, o2)
    \/ \E s \in DOMAIN sinks, o1, o2 \in Quiet : Close(s, o1, o2)
    \/ \E s \in DOMAIN sinks, name \in Names, o \in Quiet : Notify(s, name, o)

DrainAccepted ==
    \E s \in DOMAIN sinks :
        /\ sinks[s].buffered # <<>>
        /\ \/ \E o2 \in Quiet : PollComplete(s, "ready", o2)
           \/ \E name \in Names, o2 \in Quiet : StartSend(s, name, "ready", o2)

SpecLive == Init /\ [][NextLive]_vars /\ WF_vars(DrainAccepted)

\* The Sink and its clones, each driven by its owner, one call at a time, over
\* the one underlying channel.  No clone treats a name, an id or an error value
\* differently from another, so there is one of each here.
CloneNames == {"foo"}
CloneIds == {"id1"}
CloneOutcomes == {"ready", "not_ready", "closed"}

NextClone ==
    \/ \E s \in DOMAIN sinks : Clone(s)
    \/ /\ \/ \E id \in CloneIds, open \in BOOLEAN : AssignId(id, open)
          \/ \E open \in BOOLEAN : Reject(open)
          \/ \E s \in DOMAIN sinks, name \in CloneNames, o1, o2 \in CloneOutcomes :
                StartSend(s, name, o1, o2)
          \/ \E s \in DOMAIN sinks, o1, o2 \in CloneOutcomes : PollComplete(s, o1, o2)
          \/ \E s \in DOMAIN sinks, o1, o2 \in CloneOutcomes : Close(s, o1, o2)
          \/ \E s \in DOMAIN sinks, name \in CloneNames, o \in CloneOutcomes :
                Notify(s, name, o)
       /\ nextVal' <= MaxCloneItems + 1

SpecClone == Init /\ [][NextClone]_vars

----------------------------------------------------------------------------
\* Vocabulary of the properties.

\* The (name, params) entry start_send buffers for a submitted (name, value) item.
Entry(item) == <<item[1], [params |-> "Array", elems |-> <<[json |-> "Number", n |-> item[2]]>>]>>

Held(e) == \E s \in DOMAIN sinks : sinks[s].buffered = <<e>>
InChan(e) == \E i \in DOMAIN chan : chan[i] = e
Copies(e) == Cardinality({i \in DOMAIN chan : chan[i] = e})

Sent == last.op = "start_send"
Buffer == sinks[last.sink].buffered
FirstCall == last.calls[1]
LastCall == last.calls[Len(last.calls)]
\* The entries the latest call added to the channel.
NewInChan == SubSeq(chan, Len(chan) - Len(Delivered(last.calls)) + 1, Len(chan))
\* The latest call is a start_send whose initial drain step yielded Ready.
DrainReady == Sent /\ (last.pre = <<>> \/ FirstCall.res.kind = "Ready")
\* The latest call is a start_send whose initial drain step yielded NotReady.
DrainNotReady == Sent /\ last.pre # <<>> /\ last.calls # <<>> /\ FirstCall.res.kind = "NotReady"

----------------------------------------------------------------------------
\* C1: while every call has been a start_send on the one Sink and the underlying
\* channel has accepted every try-send, every submitted item was accepted and
\* the channel has received exactly the submitted items, in submission order.
C1_InOrderDelivery ==
    smooth =>
        /\ (Sent => last.res = Ready)
        /\ Len(accepted) = nextVal - 1
        /\ \A i \in DOMAIN accepted : accepted[i][2] = i
        /\ chan = [i \in DOMAIN accepted |-> Entry(accepted[i])]

C1_Witness == smooth /\ Len(chan) >= 2 /\ chan[1][1] # chan[2][1]

\* C2: a start_send whose initial drain step yields NotReady returns NotReady
\* with the very item it was given, leaves the buffered item in place and hands
\* nothing but the buffered item to the underlying channel.
C2_RejectKeepsBuffer ==
    DrainNotReady =>
        /\ last.res = NotReadyWith(last.arg[1])
        /\ Buffer = last.pre
        /\ Len(last.calls) = 1
        /\ FirstCall.call = "start_send" /\ FirstCall.item = last.pre
        /\ NewInChan = <<>>
        /\ ~InChan(Entry(last.arg[1]))

C2_Witness == DrainNotReady /\ last.res.kind = "NotReady" /\ Buffer = last.pre

\* C3 as stated: the start_send that follows a flush which left the buffer Full
\* returns NotReady and the buffered item is still in the buffer.
C3_Original ==
    (Sent /\ last.preFlushed = "left_full") =>
        (last.res.kind = "NotReady" /\ Buffer = last.pre)

\* C3 amended: the start_send that follows a flush which left the buffer Full
\* tries the buffered item again; it rejects its new item exactly when the
\* channel answers that try-send with not ready, and the buffered item then stays
\* in place; when the channel accepts it the item is on the channel; only a
\* transport error answered to that try-send, which the call returns, drops it.
C3_RejectWhileNotReady ==
    (Sent /\ last.preFlushed = "left_full") =>
        /\ last.pre # <<>> /\ last.calls # <<>>
        /\ FirstCall.call = "start_send" /\ FirstCall.item = last.pre
        /\ (FirstCall.res.kind = "NotReady" <=> last.res.kind = "NotReady")
        /\ (FirstCall.res.kind = "NotReady" =>
                last.res = NotReadyWith(last.arg[1]) /\ Buffer = last.pre /\ NewInChan = <<>>)
        /\ (FirstCall.res.kind = "Ready" => NewInChan # <<>> /\ NewInChan[1] = last.pre[1])
        /\ (FirstCall.res.kind = "Err" => last.res = FirstCall.res /\ last.pre[1] \in failed)

C3_Witness ==
    Sent /\ last.preFlushed = "left_full" /\ last.res.kind = "NotReady" /\ Buffer = last.pre

\* C4 as stated: every item start_send reported accepted is in the Sink's buffer
\* or has been accepted by the underlying channel.
C4_Original ==
    \A i \in DOMAIN accepted : Held(Entry(accepted[i])) \/ InChan(Entry(accepted[i]))

\* C4 amended: every item start_send reported accepted is in the Sink's buffer,
\* or has been accepted by the underlying channel, or was handed to the
\* underlying channel in a try-send that failed with a transport error.
C4_NoSilentLoss ==
    \A i \in DOMAIN accepted :
        \/ Held(Entry(accepted[i]))
        \/ InChan(Entry(accepted[i]))
        \/ Entry(accepted[i]) \in failed

C4_Witness ==
    /\ Len(accepted) = 2
    /\ Entry(accepted[1]) \in failed /\ ~InChan(Entry(accepted[1]))
    /\ Held(Entry(accepted[2]))

\* C5 as stated: a start_send whose initial drain step yields Ready reports its
\* item accepted whatever the opportunistic flush did, and when the channel is
\* not ready the buffer holds exactly (name, serialized value).
C5_Original ==
    DrainReady =>
        /\ last.res = Ready
        /\ (last.calls # <<>> /\ LastCall.res.kind = "NotReady" => Buffer = <<Entry(last.arg[1])>>)

\* C5 amended: a start_send whose initial drain step yields Ready buffers
\* (name, serialized value) and makes one try-send of it; it reports the item
\* accepted whether the channel accepted it (buffer Empty) or was not ready
\* (buffer Full with exactly that entry); a transport error answered to that
\* try-send is returned instead, and the buffer is Empty.
C5_AcceptedUnlessError ==
    DrainReady =>
        /\ Len(last.calls) = (IF last.pre = <<>> THEN 1 ELSE 2)
        /\ LastCall.call = "start_send" /\ LastCall.item = <<Entry(last.arg[1])>>
        /\ (LastCall.res.kind \in {"Ready", "NotReady"} <=> last.res = Ready)
        /\ (LastCall.res.kind = "NotReady" => Buffer = <<Entry(last.arg[1])>>)
        /\ (LastCall.res.kind = "Ready" => Buffer = <<>>)
        /\ (LastCall.res.kind = "Err" => last.res = LastCall.res /\ Buffer = <<>>)

C5_Witness ==
    /\ DrainReady /\ last.pre = <<>> /\ last.res = Ready
    /\ LastCall.res.kind = "NotReady" /\ Buffer = <<Entry(last.arg[1])>>

\* C6: a start_send on an Empty buffer, every try-send of which the channel
\* accepts, reports the item accepted, has handed exactly that one item to the
\* channel within the call, and leaves the buffer Empty.
C6_ImmediateAccept ==
    (Sent /\ last.pre = <<>> /\ AllAccepted(last.calls)) =>
        /\ last.res = Ready
        /\ Len(last.calls) = 1
        /\ NewInChan = <<Entry(last.arg[1])>>
        /\ Buffer = <<>>

C6_Witness ==
    Sent /\ last.pre = <<>> /\ last.calls # <<>> /\ AllAccepted(last.calls) /\ Buffer = <<>>

\* C7 as stated: the start_send that follows a flush whose drain step emptied
\* the buffer reports its item accepted.
C7_Original == (Sent /\ last.preFlushed = "emptied") => last.res = Ready

\* C7 amended: the start_send that follows a flush whose drain step emptied the
\* buffer finds the buffer Empty, never returns NotReady, and hands its own item
\* to the channel; it reports the item accepted unless that try-send fails with
\* a transport error, which it returns.
C7_AcceptAfterFlush ==
    (Sent /\ last.preFlushed = "emptied") =>
        /\ last.pre = <<>>
        /\ last.res.kind # "NotReady"
        /\ Len(last.calls) = 1 /\ FirstCall.item = <<Entry(last.arg[1])>>
        /\ (FirstCall.res.kind # "Err" => last.res = Ready)
        /\ (FirstCall.res.kind = "Err" => last.res = FirstCall.res)

C7_Witness == Sent /\ last.preFlushed = "emptied" /\ last.res = Ready

\* C8: in every poll_complete and close call the underlying poll_complete/close
\* is invoked at most once, as the call's last underlying call and as the
\* operation of the same name, and when the buffer was Full at the start a
\* try-send of the buffered item precedes it; a try-send that fails with a
\* transport error ends the call without the underlying flush/close.
C8_DrainBeforeDelegate ==
    (last.op \in {"poll_complete", "close"}) =>
        /\ (last.pre # <<>> =>
                /\ last.calls # <<>>
                /\ FirstCall.call = "start_send" /\ FirstCall.item = last.pre
                /\ (FirstCall.res.kind = "Err" <=> Len(last.calls) = 1)
                /\ (FirstCall.res.kind # "Err" => Len(last.calls) = 2 /\ LastCall.call = last.op))
        /\ (last.pre = <<>> => Len(last.calls) = 1 /\ FirstCall.call = last.op)
        /\ \A i \in DOMAIN last.calls :
                last.calls[i].call \in {"poll_complete", "close"} =>
                    i = Len(last.calls) /\ last.calls[i].call = last.op

C8_Witness ==
    /\ last.op = "close" /\ last.pre # <<>> /\ Len(last.calls) = 2
    /\ FirstCall.call = "start_send" /\ LastCall.call = "close"

\* C9: the buffer of every Sink holds at most one entry; notify never changes
\* the buffer; an entry found in the buffer leaves it only through a try-send of
\* that entry which the channel did not hand back; and a call leaves a different
\* entry in the buffer than it found only when it is a start_send that first made
\* a try-send of the entry it found, which the channel accepted, the new entry
\* being the one of its own item.
C9_SingleSlotNoOverwrite ==
    /\ \A s \in DOMAIN sinks : Len(sinks[s].buffered) <= 1
    /\ (last.op = "notify" => Buffer = last.pre)
    /\ (last.sink # 0 /\ last.pre # <<>> /\ Buffer # last.pre) =>
            /\ FirstCall.call = "start_send" /\ FirstCall.item = last.pre
            /\ FirstCall.res.kind \in {"Ready", "Err"}
    /\ (last.sink # 0 /\ Buffer # <<>> /\ Buffer # last.pre) =>
            /\ Sent
            /\ Buffer = <<Entry(last.arg[1])>>
            /\ (last.pre # <<>> =>
                    /\ FirstCall.call = "start_send" /\ FirstCall.item = last.pre
                    /\ FirstCall.res.kind = "Ready"
                    /\ NewInChan = last.pre)

C9_Witness ==
    Sent /\ last.pre # <<>> /\ Buffer # <<>> /\ Buffer # last.pre /\ last.res = Ready

\* C10 as stated: over any sequence of start_send, poll_complete, close and
\* clone operations on a Sink and its clones, each item a start_send call
\* accepted is accepted by the underlying channel at most once.
C10_AtMostOnce == \A i \in DOMAIN accepted : Copies(Entry(accepted[i])) <= 1

----------------------------------------------------------------------------
\* The latest call is one of the three operations that run a drain step.
Drains == last.op \in {"start_send", "poll_complete", "close"}
IsSend(c) == c.call \in {"start_send", "notify"}
WellFormed(e) ==
    \E n \in Names, v \in 1..MaxItems : e = Entry(<<n, v>>)

\* C11: in start_send, poll_complete and close, a transport error answered by
\* the underlying channel's send, flush or close is the call's result, with the
\* same error value, and is the last underlying call of that call; the call
\* returns an error only when the underlying channel answered one, so a
\* not-ready answer is never turned into an error.
C11_ErrorsPropagate ==
    Drains =>
        /\ \A i \in DOMAIN last.calls :
                last.calls[i].res.kind = "Err" =>
                    i = Len(last.calls) /\ last.res = last.calls[i].res
        /\ (last.res.kind = "Err" =>
                last.calls # <<>> /\ LastCall.res = last.res /\ last.res.err \in Errors)
        /\ \A i \in DOMAIN last.calls, j \in DOMAIN last.calls :
                (i < j /\ IsSend(last.calls[i]) /\ IsSend(last.calls[j])) =>
                    last.calls[i].item # last.calls[j].item

C11_Witness ==
    /\ last.op = "close" /\ last.pre # <<>> /\ last.res = Err("broken")
    /\ Len(last.calls) = 1 /\ FirstCall.call = "start_send"

\* C12: notify makes exactly one underlying call, the notify of
\* (name, [serialized value]), whatever the buffer holds and without a try-send
\* of the buffered entry; it returns the result of that call and leaves the
\* Sink's buffer and id as they were.
C12_NotifyPassthrough ==
    (last.op = "notify") =>
        /\ Len(last.calls) = 1
        /\ FirstCall.call = "notify" /\ FirstCall.item = <<Entry(last.arg[1])>>
        /\ last.res = FirstCall.res
        /\ Buffer = last.pre
        /\ sinks[last.sink].id = last.id

C12_Witness ==
    last.op = "notify" /\ last.pre # <<>> /\ last.res = Ready /\ Buffer = last.pre

\* C13: every entry handed to the underlying channel by notify or start_send is
\* the caller's name with a one-element parameter list holding the serialized
\* value: the calls of one operation hand over the entry of its own item or the
\* entry found in the buffer, and every entry buffered or accepted by the
\* channel has that form.
C13_WireForm ==
    /\ \A i \in DOMAIN chan : WellFormed(chan[i])
    /\ \A s \in DOMAIN sinks : \A k \in DOMAIN sinks[s].buffered : WellFormed(sinks[s].buffered[k])
    /\ \A i \in DOMAIN last.calls :
            IsSend(last.calls[i]) =>
                \/ last.calls[i].item = last.pre
                \/ last.arg # <<>> /\ last.calls[i].item = <<Entry(last.arg[1])>>

C13_Witness ==
    /\ Sent /\ last.pre # <<>> /\ Len(last.calls) = 2 /\ AllAccepted(last.calls)
    /\ \E i \in DOMAIN chan : \E v \in 1..MaxItems : chan[i] = Entry(<<"bar", v>>)

\* C14: assign_id consumes the Subscriber; when the raw handle succeeds there is
\* exactly one Sink, with an Empty buffer and the given id; when it fails the
\* call returns the failure and there is no Sink; a consumed Subscriber offers
\* neither assign_id nor reject.
C14_AssignId ==
    /\ (last.op = "assign_id" =>
            /\ subscriber = "consumed"
            /\ last.res.kind \in {"Ok", "Err"}
            /\ (last.res.kind = "Ok" => sinks = <<[id |-> last.id, buffered |-> <<>>]>>)
            /\ (last.res.kind = "Err" => sinks = <<>>))
    /\ (subscriber = "consumed" =>
            /\ ~ENABLED (\E id \in Ids, open \in BOOLEAN : AssignId(id, open))
            /\ ~ENABLED (\E open \in BOOLEAN : Reject(open)))
    /\ (sinks # <<>> => subscriber = "consumed")

C14_Witness ==
    last.op = "assign_id" /\ last.res = Ok /\ sinks = <<[id |-> "id2", buffered |-> <<>>]>>

\* C16: the drain step that opens start_send, poll_complete and close: on an
\* Empty buffer it makes no try-send and yields Ready; on a Full buffer it makes
\* exactly one try-send, of the buffered entry: when the channel accepts, the
\* buffer is Empty, when the channel is not ready, the buffer keeps that entry.
\* Without a transport error it yields Ready exactly when it leaves the buffer
\* Empty and NotReady exactly when it leaves it Full.
C16_DrainStep ==
    Drains =>
        /\ (last.pre = <<>> =>
                /\ last.drain = Ready /\ last.mid = <<>>
                /\ \A i \in DOMAIN last.calls :
                        last.calls[i].call = "start_send" =>
                            Sent /\ last.calls[i].item = <<Entry(last.arg[1])>>)
        /\ (last.pre # <<>> =>
                /\ last.calls # <<>>
                /\ FirstCall.call = "start_send" /\ FirstCall.item = last.pre
                /\ \A i \in DOMAIN last.calls :
                        (i > 1 /\ last.calls[i].call = "start_send") =>
                            last.calls[i].item # last.pre
                /\ (FirstCall.res.kind = "Ready" => last.mid = <<>>)
                /\ (FirstCall.res.kind = "NotReady" => last.mid = last.pre)
                /\ (FirstCall.res.kind = "Err" <=> last.drain.kind = "Err"))
        /\ (last.drain.kind # "Err" =>
                /\ (last.drain = Ready <=> last.mid = <<>>)
                /\ (last.drain = NotReady <=> last.mid # <<>>))
        /\ (last.op \in {"poll_complete", "close"} => Buffer = last.mid)

C16_Witness ==
    /\ last.op = "poll_complete" /\ last.pre # <<>>
    /\ FirstCall.res.kind = "NotReady" /\ last.drain = NotReady /\ Buffer = last.pre

\* C17 as stated: whenever poll_complete or close returns Ready, the Sink's
\* buffer is Empty.
C17_ReadyMeansEmpty ==
    (last.op \in {"poll_complete", "close"} /\ last.res = Ready) => Buffer = <<>>

\* C19: after a drain step failed with a transport error answered to its
\* try-send, the buffer is Empty; an entry whose try-send failed is in no
\* buffer, was handed over once in that call, and is never accepted by the
\* underlying channel.
C19_ErrorDropsItem ==
    /\ (Drains /\ last.calls # <<>> /\ LastCall.call = "start_send" /\ LastCall.res.kind = "Err") =>
            /\ Buffer = <<>>
            /\ LastCall.item[1] \in failed
    /\ \A e \in failed : ~Held(e) /\ ~InChan(e)
    /\ \A e \in failed :
            Cardinality({i \in DOMAIN last.calls : last.calls[i].item = <<e>>}) <= 1

C19_Witness ==
    /\ last.op = "poll_complete" /\ last.pre # <<>> /\ last.drain.kind = "Err"
    /\ Buffer = <<>> /\ last.pre[1] \in failed

----------------------------------------------------------------------------
AllEntries == {Entry(<<n, v>>) : n \in Names, v \in 1..MaxItems}

\* C18: with no transport error, a scheduler that keeps calling start_send or
\* poll_complete while the buffer is Full and a channel that accepts a try-send
\* in the end: every buffered entry is eventually accepted by the underlying
\* channel and out of the buffer, a Full buffer eventually becomes Empty, and a
\* start_send whose drain step leaves the buffer Empty, a retried one included,
\* reports its item accepted.
C18_EventuallyDrained ==
    /\ \A e \in AllEntries : Held(e) ~> (InChan(e) /\ ~Held(e))
    /\ (sinks # <<>> /\ sinks[1].buffered # <<>>) ~> (sinks # <<>> /\ sinks[1].buffered = <<>>)
    /\ []((Sent /\ last.mid = <<>>) =>
            (last.res = Ready /\ accepted # <<>> /\ accepted[Len(accepted)] = last.arg[1]))

C18_Witness ==
    /\ Sent /\ last.retry /\ last.pre # <<>> /\ FirstCall.res.kind = "Ready"
    /\ last.res = Ready /\ InChan(last.pre[1])

----------------------------------------------------------------------------
\* C15: a call on one Sink leaves every other Sink, a clone or the original,
\* as it was, its buffer slot included; cloning changes no existing Sink; and
\* whichever Sink makes the call, the entries the underlying channel accepts in
\* it are appended to the one shared channel.
C15_IndependentBuffers ==
    [][ /\ \A t \in DOMAIN sinks :
                (last'.op = "clone" \/ t # last'.sink) =>
                    (t \in DOMAIN sinks' /\ sinks'[t] = sinks[t])
        /\ chan' = chan \o Delivered(last'.calls)
        /\ (last'.op = "clone" =>
                /\ Len(sinks') = Len(sinks) + 1
                /\ sinks'[Len(sinks')] = sinks[last'.sink]) ]_vars

C15_Witness ==
    /\ Len(sinks) = 2 /\ last.op = "poll_complete" /\ last.sink = 2
    /\ last.pre # <<>> /\ sinks[2].buffered = <<>> /\ sinks[1].buffered = last.pre
    /\ chan # <<>> /\ chan[Len(chan)] = last.pre[1]

====
